---- MODULE Spec2Model ----
(***************************************************************************)
(* NTC calibration: Steinhart-Hart fit, Newton inversion and lookup-table  *)
(* construction (steinhart_hart_ntc.py, ntc_lut.py).                       *)
(*                                                                         *)
(* Numbers.  The program computes in IEEE-754 binary64 (numpy.float64).    *)
(* The model keeps the IEEE value classes (finite, signed zero, +-inf,     *)
(* NaN), round-to-nearest-even after every operation and the binary64      *)
(* exponent range, and shortens the significand from 53 to MantBits bits.  *)
(* A finite value is sign * m * 2^e with m = 0 or 2^(MantBits-1) <= m <    *)
(* 2^MantBits.                                                             *)
(***************************************************************************)
EXTENDS Integers, Sequences, FiniteSets, TLC

\* significand width of the modelled floating-point format (binary64: 53)
MantBits == 11
\* the exponent range of binary64: finite values stay below 2^ExpLimit, and
\* nothing but zero lies below 2^-ExpFloor
ExpLimit == 2 * 512
ExpFloor == ExpLimit + 50

RECURSIVE Pow2(_)
Pow2(n) == IF n <= 0 THEN 1 ELSE 2 * Pow2(n - 1)

RECURSIVE BitLen(_)
BitLen(n) == IF n = 0 THEN 0 ELSE 1 + BitLen(n \div 2)

Abs(x) == IF x < 0 THEN -x ELSE x

\* the one element of a singleton set
Only(S) == CHOOSE v \in S : TRUE

NaN == [k |-> "nan", s |-> 1, m |-> 0, e |-> 0]
Inf(sg) == [k |-> "inf", s |-> sg, m |-> 0, e |-> 0]
Zero(sg) == [k |-> "fin", s |-> sg, m |-> 0, e |-> 0]

IsNaN(x) == x.k = "nan"
IsInf(x) == x.k = "inf"
IsFin(x) == x.k = "fin"
IsZero(x) == x.k = "fin" /\ x.m = 0

\* n / 2^sh to the nearest integer, ties to even (n * 2^-sh when sh <= 0)
Rounded(n, sh) ==
  IF sh <= 0 THEN n * Pow2(-sh)
  ELSE Only({ LET q == n \div d
                  rem == n % d
              IN IF rem > d - rem \/ (rem = d - rem /\ q % 2 = 1) THEN q + 1 ELSE q
              : d \in {Pow2(sh)} })

\* sign * m * 2^e for a significand m of MantBits bits or the 2^MantBits a
\* rounding carried into: overflow gives an infinity, underflow a signed zero
Pack(sg, m, e) ==
  LET carry == m = Pow2(MantBits)
      m2 == IF carry THEN Pow2(MantBits - 1) ELSE m
      e2 == IF carry THEN e + 1 ELSE e
  IN IF e2 + MantBits > ExpLimit THEN Inf(sg)
     ELSE IF e2 + MantBits <= -ExpFloor THEN Zero(sg)
     ELSE [k |-> "fin", s |-> sg, m |-> m2, e |-> e2]

\* sign * n * 2^e rounded to the format: round to nearest, ties to even
Norm(sg, n, e) ==
  IF n = 0 THEN Zero(sg)
  ELSE Only({ Only({ Pack(sg, m, e + sh) : m \in {Rounded(n, sh)} })
              : sh \in {BitLen(n) - MantBits} })

\* the float nearest to the integer n
FromInt(n) == Norm(IF n < 0 THEN -1 ELSE 1, Abs(n), 0)

FNeg(a) == Only({IF IsNaN(x) THEN NaN ELSE [x EXCEPT !.s = -x.s] : x \in {a}})
FAbs(a) == Only({IF IsNaN(x) THEN NaN ELSE [x EXCEPT !.s = 1] : x \in {a}})

FMulV(x, y) ==
  IF IsNaN(x) \/ IsNaN(y) THEN NaN
  ELSE IF IsInf(x) \/ IsInf(y)
       THEN IF IsZero(x) \/ IsZero(y) THEN NaN ELSE Inf(x.s * y.s)
  ELSE Norm(x.s * y.s, x.m * y.m, x.e + y.e)
FMul(a, b) == Only({FMulV(x, y) : x \in {a}, y \in {b}})

FDivV(x, y) ==
  IF IsNaN(x) \/ IsNaN(y) THEN NaN
  ELSE IF IsInf(x) THEN (IF IsInf(y) THEN NaN ELSE Inf(x.s * y.s))
  ELSE IF IsInf(y) THEN Zero(x.s * y.s)
  ELSE IF IsZero(y) THEN (IF IsZero(x) THEN NaN ELSE Inf(x.s * y.s))
  ELSE IF IsZero(x) THEN Zero(x.s * y.s)
  ELSE LET num == x.m * Pow2(MantBits + 2)
           q == num \div y.m
           sticky == IF num % y.m = 0 THEN 0 ELSE 1
       IN Norm(x.s * y.s, 2 * q + sticky, x.e - y.e - MantBits - 3)
FDiv(a, b) == Only({FDivV(x, y) : x \in {a}, y \in {b}})

\* x + y for finite nonzero x, y with x.e >= y.e
AddAligned(x, y) ==
  LET d == x.e - y.e
  IN IF d > MantBits + 2 THEN x
     ELSE LET sum == x.s * x.m * Pow2(d) + y.s * y.m
          IN IF sum = 0 THEN Zero(1)
             ELSE Norm(IF sum < 0 THEN -1 ELSE 1, Abs(sum), y.e)

FAddV(x, y) ==
  IF IsNaN(x) \/ IsNaN(y) THEN NaN
  ELSE IF IsInf(x) THEN (IF IsInf(y) /\ y.s # x.s THEN NaN ELSE x)
  ELSE IF IsInf(y) THEN y
  ELSE IF IsZero(x) THEN (IF IsZero(y) THEN Zero(IF x.s = -1 /\ y.s = -1 THEN -1 ELSE 1) ELSE y)
  ELSE IF IsZero(y) THEN x
  ELSE IF x.e >= y.e THEN AddAligned(x, y) ELSE AddAligned(y, x)
FAdd(a, b) == Only({FAddV(x, y) : x \in {a}, y \in {b}})

FSub(a, b) == FAdd(a, FNeg(b))

\* x < y, false as soon as one side is NaN
FLessV(x, y) ==
  IF IsNaN(x) \/ IsNaN(y) THEN FALSE
  ELSE LET d == FSub(x, y)
       IN IF IsNaN(d) THEN FALSE    \* equal infinities
          ELSE d.s = -1 /\ ~IsZero(d)
FLess(a, b) == Only({FLessV(x, y) : x \in {a}, y \in {b}})

\* the float nearest to n / d, for integers n and d > 0
IntDiv(n, d) ==
  IF n = 0 THEN Zero(1)
  ELSE LET kk == 30 - BitLen(Abs(n))
           num == Abs(n) * Pow2(kk)
           q == num \div d
           sticky == IF num % d = 0 THEN 0 ELSE 1
       IN Norm(IF n < 0 THEN -1 ELSE 1, 2 * q + sticky, -kk - 1)

One == FromInt(1)
Two == FromInt(2)

\* x ** n for an integer n >= 0 (pow(x, 0) is 1 for every x, NaN included)
RECURSIVE FPow(_, _)
FPow(a, n) == IF n <= 0 THEN One ELSE Only({IF n = 1 THEN x ELSE FMul(FPow(x, n - 1), x) : x \in {a}})

\* ln 2 to 30 binary places, rounded to the format
Ln2 == Norm(1, 744261118, -30)

\* numpy.log: NaN below zero, -inf at zero, +inf at +inf; otherwise
\* x = f * 2^E with f in [3/4, 3/2), ln x = E ln 2 + 2 artanh((f-1)/(f+1))
FLogV(x) ==
  IF IsNaN(x) THEN NaN
  ELSE IF IsZero(x) THEN Inf(-1)
  ELSE IF x.s = -1 THEN NaN
  ELSE IF IsInf(x) THEN Inf(1)
  ELSE LET big == 2 * x.m > 3 * Pow2(MantBits - 1)
           unit == IF big THEN Pow2(MantBits) ELSE Pow2(MantBits - 1)
           ex == IF big THEN x.e + MantBits ELSE x.e + MantBits - 1
           z == IntDiv(x.m - unit, x.m + unit)
           w == FMul(z, z)
           ser == FAdd(One, FMul(w, FAdd(IntDiv(1, 3),
                    FMul(w, FAdd(IntDiv(1, 5), FMul(w, IntDiv(1, 7)))))))
       IN FAdd(FMul(FromInt(ex), Ln2), FMul(FMul(Two, z), ser))
FLog(a) == Only({FLogV(x) : x \in {a}})

\* numpy.round: to the nearest integer, ties to even; sign and specials kept
FRoundV(x) ==
  IF ~IsFin(x) \/ IsZero(x) \/ x.e >= 0 THEN x
  ELSE IF -x.e > MantBits + 1 THEN Zero(x.s)
  ELSE Norm(x.s, Rounded(x.m, -x.e), 0)
FRound(a) == Only({FRoundV(x) : x \in {a}})

\* Python's max(a, b): b only when b > a, so a NaN in first place stays
PyMax(a, b) == Only({IF FLessV(x, y) THEN y ELSE x : x \in {a}, y \in {b}})

\* the literal 273.15
Kelvin == IntDiv(27315, 100)

Min(a, b) == IF a < b THEN a ELSE b

(***************************************************************************)
(* steinhart_hart_ntc.py                                                   *)
(***************************************************************************)

\* sh_p after the first n pairs of zip(coefficients, terms); logr is
\* np.log(resistance)
RECURSIVE sh_p_sum(_, _, _, _)
sh_p_sum(logr, coefficients, terms, n) ==
  IF n = 0 THEN Zero(1)
  ELSE FAdd(sh_p_sum(logr, coefficients, terms, n - 1),
            FMul(coefficients[n], FPow(logr, terms[n])))

sh_p(resistance, coefficients, terms) ==
  sh_p_sum(FLog(resistance), coefficients, terms, Min(Len(coefficients), Len(terms)))

\* sh_dp_dr after the first n pairs: only the terms with p > 0 contribute
RECURSIVE sh_dp_dr_sum(_, _, _, _)
sh_dp_dr_sum(resistance, coefficients, terms, n) ==
  IF n = 0 THEN Zero(1)
  ELSE LET acc == sh_dp_dr_sum(resistance, coefficients, terms, n - 1)
           p == terms[n]
       IN IF p > 0
          THEN FAdd(acc, FMul(FMul(FMul(coefficients[n], FromInt(p)),
                                   FPow(FLog(resistance), p - 1)),
                              FDiv(One, resistance)))
          ELSE acc

sh_dp_dr(resistance, coefficients, terms) ==
  sh_dp_dr_sum(resistance, coefficients, terms, Min(Len(coefficients), Len(terms)))

\* steinhart_hart, for equally long non-empty coefficients and terms
steinhart_hart(resistance, coefficients, terms, temp_in_celsius) ==
  LET temp == FDiv(One, sh_p(resistance, coefficients, terms))
  IN IF temp_in_celsius THEN FSub(temp, Kelvin) ELSE temp

steinhart_hart_derivative(resistance, coefficients, terms, temp_in_celsius) ==
  LET dp_dr == sh_dp_dr(resistance, coefficients, terms)
      p == sh_p(resistance, coefficients, terms)
  IN FDiv(FNeg(dp_dr), FPow(p, 2))

\* f(r) = sh(r) - temperature of one pass of the loop
Residual(r, temperature, coefficients, terms, temp_in_celsius) ==
  FSub(steinhart_hart(r, coefficients, terms, temp_in_celsius), temperature)

\* the mutated copy of NewtonUpdate used to test C3: the step without max
NewtonUpdateWithoutFloor(r, f, df_dr, min_resistance) ==
  FSub(r, FDiv(f, df_dr))

\* the update of one pass of the loop: r = max(r - f / df_dr, min_resistance)
NewtonUpdate(r, f, df_dr, min_resistance) ==
  PyMax(FSub(r, FDiv(f, df_dr)), min_resistance)

\* the convergence test of one pass: np.abs(f) < tolerance
Converged(f, tolerance) == FLess(FAbs(f), tolerance)

\* inverse_steinhart_hart as a function: the value returned when the loop is
\* entered at r with n passes left
RECURSIVE InverseFrom(_, _, _, _, _, _, _, _)
InverseFrom(r, n, temperature, coefficients, terms, temp_in_celsius, min_resistance, tolerance) ==
  IF n = 0 THEN r
  ELSE Only({ IF Converged(pass[1], tolerance) THEN pass[2]
              ELSE InverseFrom(pass[2], n - 1, temperature, coefficients, terms,
                               temp_in_celsius, min_resistance, tolerance)
              : pass \in { Only({ <<f, NewtonUpdate(r, f, df_dr, min_resistance)>>
                                  : f \in {Residual(r, temperature, coefficients, terms, temp_in_celsius)},
                                    df_dr \in {steinhart_hart_derivative(r, coefficients, terms, temp_in_celsius)} }) } })

(***************************************************************************)
(* ntc_lut.py: unit conversion, for one element of the array               *)
(***************************************************************************)

\* 2 ** adc_resolution - 1 as it enters the float arithmetic (an exact
\* Python int, rounded to the format when it meets a float)
FullScale(adc_resolution) == FromInt(Pow2(adc_resolution) - 1)

\* adc_to_resistance, lines 14-19
adc_to_resistance(adc_value, adc_resolution, reference_voltage, pull_up_resistance) ==
  LET voltage == FDiv(FMul(adc_value, reference_voltage), FullScale(adc_resolution))
  IN FDiv(FMul(voltage, pull_up_resistance), FSub(reference_voltage, voltage))

\* the mutated copy of resistance_to_adc used to test C4: no np.round
resistance_to_adc_unrounded(resistance, adc_resolution, reference_voltage, pull_up_resistance) ==
  LET voltage == FDiv(FMul(resistance, reference_voltage), FAdd(pull_up_resistance, resistance))
  IN FMul(FDiv(voltage, reference_voltage), FullScale(adc_resolution))

\* resistance_to_adc, lines 31-38
resistance_to_adc(resistance, adc_resolution, reference_voltage, pull_up_resistance) ==
  LET voltage == FDiv(FMul(resistance, reference_voltage), FAdd(pull_up_resistance, resistance))
  IN FRound(FMul(FDiv(voltage, reference_voltage), FullScale(adc_resolution)))

\* x > 0 as Python evaluates it on a float (false for NaN)
IsPositive(x) == FLess(Zero(1), x)

AllFinite(s) == \A k \in 1..Len(s) : IsFin(s[k])

(***************************************************************************)
(* steinhart_hart_ntc.py: fit_steinhart_hart                               *)
(***************************************************************************)

\* the mutated copy of fit_preconditions used to test C7: the assertion of
\* line 71 is missing
fit_preconditions_without_count(temperature, resistance, powers) ==
  /\ Len(temperature) = Len(resistance)
  /\ Len(powers) >= 1

\* the three assertions of lines 69, 71 and 73
fit_preconditions(temperature, resistance, powers) ==
  /\ Len(temperature) = Len(resistance)
  /\ Len(temperature) >= Len(powers)
  /\ Len(powers) >= 1

\* line 83, the first n elements of np.log(resistance)
RECURSIVE LogRes(_, _)
LogRes(resistance, n) ==
  IF n = 0 THEN <<>> ELSE Append(LogRes(resistance, n - 1), FLog(resistance[n]))

\* line 85, the first n elements of inv_temp
RECURSIVE InvTemp(_, _, _)
InvTemp(temperature, temp_in_celsius, n) ==
  IF n = 0 THEN <<>>
  ELSE Append(InvTemp(temperature, temp_in_celsius, n - 1),
              FDiv(One, IF temp_in_celsius THEN FAdd(temperature[n], Kelvin)
                        ELSE temperature[n]))

\* line 91, the first n elements of the column log_res ** p
RECURSIVE Column(_, _, _)
Column(log_res, p, n) ==
  IF n = 0 THEN <<>> ELSE Append(Column(log_res, p, n - 1), FPow(log_res[n], p))

\* lines 88-91, the matrix A as the sequence of its columns
RECURSIVE Columns(_, _, _)
Columns(log_res, powers, j) ==
  IF j = 0 THEN <<>>
  ELSE Append(Columns(log_res, powers, j - 1), Column(log_res, powers[j], Len(log_res)))

RECURSIVE DotTo(_, _, _)
DotTo(u, v, n) == IF n = 0 THEN Zero(1) ELSE FAdd(DotTo(u, v, n - 1), FMul(u[n], v[n]))
Dot(u, v) == DotTo(u, v, Len(u))

\* the first n elements of v - c * u
RECURSIVE Reject(_, _, _, _)
Reject(v, u, c, n) ==
  IF n = 0 THEN <<>> ELSE Append(Reject(v, u, c, n - 1), FSub(v[n], FMul(c, u[n])))

\* x / d, and 0 where d is zero (the component the minimum-norm solution
\* leaves out)
Quot(x, d) == IF IsZero(d) THEN Zero(1) ELSE FDiv(x, d)

\* np.linalg.lstsq(A, b, rcond=None)[0] for finite A of one or two columns:
\* the least-squares solution, by orthogonalising the second column against
\* the first; the minimum-norm solution where a column is zero or the two
\* columns are dependent
lstsq(A, b) ==
  IF Len(A) = 1 THEN <<Quot(Dot(A[1], b), Dot(A[1], A[1]))>>
  ELSE Only({
         IF IsZero(uu) THEN <<Zero(1), Quot(vb, vv)>>
         ELSE Only({
                IF IsZero(ww) THEN <<Quot(ub, FAdd(uu, vv)), Quot(vb, FAdd(uu, vv))>>
                ELSE Only({ <<FDiv(FSub(ub, FMul(x2, uv)), uu), x2>>
                            : x2 \in {FDiv(Dot(w, b), ww)} })
                : ww \in {Dot(w, w)} })
         : uu \in {Dot(A[1], A[1])}, uv \in {Dot(A[1], A[2])}, vv \in {Dot(A[2], A[2])},
           ub \in {Dot(A[1], b)}, vb \in {Dot(A[2], b)},
           w \in {Reject(A[2], A[1], FDiv(Dot(A[1], A[2]), Dot(A[1], A[1])), Len(A[2]))} })

\* lines 83-97 for finite data: the fitted coefficients x
fit_steinhart_hart(temperature, resistance, powers, temp_in_celsius) ==
  lstsq(Columns(LogRes(resistance, Len(resistance)), powers, Len(powers)),
        InvTemp(temperature, temp_in_celsius, Len(temperature)))

\* whether A and inv_temp are free of infinities and NaN
FitDataFinite(temperature, resistance, powers, temp_in_celsius) ==
  /\ AllFinite(InvTemp(temperature, temp_in_celsius, Len(temperature)))
  /\ \A k \in 1..Len(resistance), j \in 1..Len(powers) :
        IsFin(FPow(FLog(resistance[k]), powers[j]))

(***************************************************************************)
(* ntc_lut.py: the table builders                                          *)
(***************************************************************************)

\* the assertions of steinhart_hart_to_adc_lut, lines 53-61
adc_lut_preconditions(sample_temps, adc_resolution, reference_voltage, pull_up_resistance, coefficients) ==
  /\ Len(coefficients) >= 1
  /\ adc_resolution >= 1
  /\ IsPositive(reference_voltage)
  /\ IsPositive(pull_up_resistance)
  /\ Len(sample_temps) > 0

\* the assertions of steinhart_hart_to_resistance_lut, lines 79-81
resistance_lut_preconditions(sample_temps, coefficients) ==
  /\ Len(coefficients) >= 1
  /\ Len(sample_temps) > 0

\* the assertions of fit_adc_lut, lines 102-106, and of fit_resistance_lut,
\* lines 149-153
fit_lut_preconditions(measured_temps, values, steinhart_hart_powers) ==
  /\ Len(measured_temps) > 0
  /\ Len(measured_temps) = Len(values)
  /\ Len(steinhart_hart_powers) > 0

\* the mutated copy of Transposed used to test C1: the rows in reverse order
TransposedReversed(first, second) ==
  [k \in 1..Len(first) |-> <<first[Len(first) + 1 - k], second[Len(first) + 1 - k]>>]

\* np.array([first, second]).T for two arrays of one length: row k is
\* (first[k], second[k])
Transposed(first, second) ==
  [k \in 1..Len(first) |-> <<first[k], second[k]>>]

(***************************************************************************)
(* State.  entry is the function the caller invoked; pc is the position    *)
(* inside the function on top of the call stack; the other variables are   *)
(* the arguments and locals of the functions on the stack, under their     *)
(* names in the source.  work records the numeric stages that have run.    *)
(***************************************************************************)
VARIABLES
  entry, pc, err, work,
  \* inverse_steinhart_hart: arguments and locals
  temperature, coefficients, terms, initial_guess, temp_in_celsius,
  min_resistance, max_iterations, tolerance, r, i, f, df_dr, result,
  \* steinhart_hart_to_adc_lut / steinhart_hart_to_resistance_lut: arguments
  \* (coefficients, terms, max_iterations and tolerance are handed on to
  \* inverse_steinhart_hart as they are) and locals; row is the index i of
  \* the list comprehension
  sample_temps, adc_resolution, reference_voltage, pull_up_resistance,
  lut_temp_in_celsius, row, sample_resistances, sample_adc_values, lut,
  \* fit_adc_lut / fit_resistance_lut / fit_steinhart_hart: arguments and
  \* locals; fit_temp_in_celsius is their temp_in_celsius argument
  measured_temps, adc_values, resistances, steinhart_hart_powers,
  fit_temp_in_celsius, source_adc_resolution, target_adc_resolution, sh_coeffs

invArgs == <<temperature, coefficients, terms, initial_guess, temp_in_celsius,
             min_resistance, max_iterations, tolerance>>
invLocals == <<r, i, f, df_dr, result>>
lutArgs == <<sample_temps, adc_resolution, reference_voltage, pull_up_resistance,
             lut_temp_in_celsius>>
lutLocals == <<row, sample_resistances, sample_adc_values, lut>>
fitArgs == <<measured_temps, adc_values, steinhart_hart_powers, fit_temp_in_celsius,
             source_adc_resolution, target_adc_resolution>>
fitLocals == <<resistances, sh_coeffs>>
vars == <<entry, pc, err, work, invArgs, invLocals, lutArgs, lutLocals, fitArgs, fitLocals>>

\* largest max_iterations a caller passes in the model
MaxIterations == 3
\* longest list of sample temperatures
MaxRows == 3
\* widest ADC of the round-trip check: one bit short of the significand
MaxBits == MantBits - 1

Micro == FDiv(One, FromInt(1000000))      \* 1e-6
Nano == FDiv(One, FromInt(1000000000))    \* 1e-9
Half == IntDiv(1, 2)

\* coefficient / exponent lists handed to the root-finder: the thermistor of
\* test.py, a constant model, single-term models, and two lists that break
\* the length assertion or are empty
NtcCoefficients ==
  <<FDiv(FromInt(859559), FromInt(1000000000)),
    FDiv(FromInt(225764), FromInt(1000000000)),
    FNeg(FDiv(FDiv(FromInt(5679844), FromInt(1000000000)), FromInt(100000)))>>
ThreePerMille == IntDiv(3, 1000)
NtcModel == [c |-> NtcCoefficients, t |-> <<0, 1, 3>>]
FlatModel == [c |-> <<ThreePerMille>>, t |-> <<0>>]
LinearModel == [c |-> <<ThreePerMille, IntDiv(3, 10000)>>, t |-> <<0, 1>>]
UnequalModel == [c |-> <<ThreePerMille, ThreePerMille>>, t |-> <<0>>]
EmptyModel == [c |-> <<>>, t |-> <<>>]
Models ==
  { NtcModel, FlatModel, LinearModel, UnequalModel, EmptyModel,
    [c |-> <<ThreePerMille>>, t |-> <<1>>],
    [c |-> <<ThreePerMille, IntDiv(3, 100000)>>, t |-> <<0, 2>>] }
LutModels == {NtcModel, FlatModel, LinearModel, UnequalModel, EmptyModel}

\* target temperatures: two of the working range, one near the forward model
\* at the initial guess (a few passes from convergence) and one far below it
Temperatures == {FromInt(25), FromInt(55), FromInt(100), FromInt(-200)}

\* the unordered sample list of the spec's example, and every list of up to
\* MaxRows of its temperatures (repetitions included)
SampleTemps == {FromInt(50), FromInt(10), FromInt(30)}
SampleLists == {<<>>} \cup UNION {[1..n -> SampleTemps] : n \in 1..MaxRows}
FitSampleLists == {<<>>, <<FromInt(25)>>, <<FromInt(50), FromInt(10), FromInt(30)>>}

\* device parameters: a 10-bit source and 8-bit target ADC at 3.3 V with a
\* 4.7 kOhm pull-up, and the same with one parameter out of its domain
V33 == IntDiv(33, 10)
GoodDevice == [src |-> 10, tgt |-> 8, vref |-> V33, rp |-> FromInt(4700)]
Devices ==
  { GoodDevice,
    [GoodDevice EXCEPT !.src = 0],
    [GoodDevice EXCEPT !.tgt = 0],
    [GoodDevice EXCEPT !.vref = FNeg(V33)],
    [GoodDevice EXCEPT !.rp = Zero(1)] }
LutDevices == {d \in Devices : d.src = GoodDevice.src}

\* measurements: three points of a 10 kOhm thermistor (as resistances and as
\* the codes of the good device), one point, two temperatures against one
\* value, and none
FitData ==
  { [t |-> <<FromInt(25), FromInt(50), FromInt(100)>>,
     v |-> <<FromInt(10000), FromInt(3600), FromInt(670)>>,
     a |-> <<FromInt(696), FromInt(444), FromInt(128)>>],
    [t |-> <<FromInt(25)>>, v |-> <<FromInt(10000)>>, a |-> <<FromInt(696)>>],
    [t |-> <<FromInt(25), FromInt(50)>>, v |-> <<FromInt(10000)>>, a |-> <<FromInt(696)>>],
    [t |-> <<>>, v |-> <<>>, a |-> <<>>] }
FitPowers == {<<0, 1>>, <<0>>, <<>>}

\* reference voltages and pull-ups of the round-trip check; the last voltage
\* is the largest power of two of the format
Huge == Norm(1, 1, ExpLimit - 1)
ConvVoltages == {V33, FromInt(5), Huge}
ConvPullUps == {FromInt(4700), FromInt(10000)}

AdcMode == entry \in {"steinhart_hart_to_adc_lut", "fit_adc_lut"}
FitLutEntry == entry \in {"fit_adc_lut", "fit_resistance_lut"}

\* no call of inverse_steinhart_hart on the stack yet
NoInvFrame ==
  /\ temperature = NaN /\ initial_guess = NaN /\ temp_in_celsius = TRUE
  /\ min_resistance = NaN
  /\ r = NaN /\ i = 0 /\ f = NaN /\ df_dr = NaN /\ result = NaN

\* no call of a table builder on the stack yet
NoLutFrame ==
  /\ sample_temps = <<>> /\ adc_resolution = 0 /\ reference_voltage = NaN
  /\ pull_up_resistance = NaN /\ lut_temp_in_celsius = TRUE
  /\ row = 0 /\ sample_resistances = <<>> /\ sample_adc_values = <<>> /\ lut = <<>>

\* no call of a fit function on the stack
NoFitFrame ==
  /\ measured_temps = <<>> /\ adc_values = <<>> /\ resistances = <<>>
  /\ steinhart_hart_powers = <<>> /\ fit_temp_in_celsius = TRUE
  /\ source_adc_resolution = 0 /\ target_adc_resolution = 0 /\ sh_coeffs = <<>>

\* a call of inverse_steinhart_hart by any caller
InitInv ==
  /\ entry = "inverse_steinhart_hart"
  /\ pc = "inv_call"
  /\ err = "" /\ work = {}
  /\ \E mdl \in Models : coefficients = mdl.c /\ terms = mdl.t
  /\ temp_in_celsius \in BOOLEAN
  /\ \/ temperature \in Temperatures
     \* the forward model at the initial guess, a target met at once
     \/ /\ Len(coefficients) = Len(terms) /\ Len(terms) > 0
        /\ temperature = steinhart_hart(One, coefficients, terms, temp_in_celsius)
        /\ IsFin(temperature)
  /\ initial_guess \in {One, Nano}
  /\ min_resistance \in {Micro, Half}
  /\ max_iterations \in 0..MaxIterations
  /\ tolerance \in {Micro, Half, One}
  /\ r = NaN /\ i = 0 /\ f = NaN /\ df_dr = NaN /\ result = NaN
  /\ NoLutFrame /\ NoFitFrame

\* a call of steinhart_hart_to_adc_lut or steinhart_hart_to_resistance_lut
InitLut ==
  /\ entry \in {"steinhart_hart_to_adc_lut", "steinhart_hart_to_resistance_lut"}
  /\ pc = "lut_call"
  /\ err = "" /\ work = {}
  /\ sample_temps \in SampleLists
  /\ \E mdl \in LutModels : coefficients = mdl.c /\ terms = mdl.t
  /\ lut_temp_in_celsius \in BOOLEAN
  /\ max_iterations = MaxIterations
  /\ tolerance = Micro
  /\ IF entry = "steinhart_hart_to_adc_lut"
     THEN \E d \in LutDevices :
            /\ adc_resolution = d.tgt
            /\ reference_voltage = d.vref
            /\ pull_up_resistance = d.rp
     ELSE adc_resolution = 0 /\ reference_voltage = NaN /\ pull_up_resistance = NaN
  /\ row = 0 /\ sample_resistances = <<>> /\ sample_adc_values = <<>> /\ lut = <<>>
  /\ NoInvFrame /\ NoFitFrame

\* a call of fit_adc_lut, fit_resistance_lut or fit_steinhart_hart
InitFit ==
  /\ entry \in {"fit_adc_lut", "fit_resistance_lut", "fit_steinhart_hart"}
  /\ pc = IF entry = "fit_steinhart_hart" THEN "fit_call" ELSE "fit_lut_call"
  /\ err = "" /\ work = {}
  /\ \E d \in FitData :
       /\ measured_temps = d.t
       /\ adc_values = IF entry = "fit_adc_lut" THEN d.a ELSE <<>>
       /\ resistances = IF entry = "fit_adc_lut" THEN <<>> ELSE d.v
  /\ steinhart_hart_powers \in FitPowers
  /\ fit_temp_in_celsius \in BOOLEAN
  /\ IF entry = "fit_adc_lut"
     THEN \E d \in Devices :
            /\ source_adc_resolution = d.src
            /\ target_adc_resolution = d.tgt
            /\ reference_voltage = d.vref
            /\ pull_up_resistance = d.rp
     ELSE /\ source_adc_resolution = 0 /\ target_adc_resolution = 0
          /\ reference_voltage = NaN /\ pull_up_resistance = NaN
  /\ IF entry = "fit_steinhart_hart"
     THEN sample_temps = <<>>
     ELSE sample_temps \in FitSampleLists
  /\ max_iterations = MaxIterations
  /\ tolerance = Micro
  /\ coefficients = <<>> /\ terms = <<>> /\ sh_coeffs = <<>>
  /\ adc_resolution = 0 /\ lut_temp_in_celsius = TRUE
  /\ row = 0 /\ sample_resistances = <<>> /\ sample_adc_values = <<>> /\ lut = <<>>
  /\ NoInvFrame

\* a caller that converts a code to a resistance and back
InitConv ==
  /\ entry = "round_trip"
  /\ pc = "conv_call"
  /\ err = "" /\ work = {}
  /\ adc_resolution \in 1..MaxBits
  /\ \E code \in 1..(Pow2(adc_resolution) - 2) : adc_values = <<FromInt(code)>>
  /\ reference_voltage \in ConvVoltages
  /\ pull_up_resistance \in ConvPullUps
  /\ source_adc_resolution = adc_resolution
  /\ target_adc_resolution = adc_resolution
  /\ sample_temps = <<>> /\ lut_temp_in_celsius = TRUE
  /\ row = 0 /\ sample_resistances = <<>> /\ sample_adc_values = <<>> /\ lut = <<>>
  /\ measured_temps = <<>> /\ resistances = <<>> /\ steinhart_hart_powers = <<>>
  /\ fit_temp_in_celsius = TRUE /\ sh_coeffs = <<>>
  /\ coefficients = <<>> /\ terms = <<>> /\ max_iterations = 0 /\ tolerance = NaN
  /\ NoInvFrame

(***************************************************************************)
(* inverse_steinhart_hart                                                  *)
(***************************************************************************)

\* the mutated copy of InvEnter used to test C9: a call made for a later row
\* starts from the resistance the previous call returned
InvEnterWarm ==
  /\ pc = "inv_call"
  /\ IF Len(coefficients) = Len(terms)
     THEN /\ pc' = "inv_loop"
          /\ r' = IF IsNaN(result) THEN initial_guess ELSE result
          /\ i' = 0
          /\ err' = err
     ELSE /\ pc' = "raised"
          /\ err' = "AssertionError"
          /\ UNCHANGED <<r, i>>
  /\ UNCHANGED <<entry, work, invArgs, f, df_dr, result, lutArgs, lutLocals, fitArgs, fitLocals>>

\* lines 51-53: the length assertion, then r = initial_guess
InvEnter ==
  /\ pc = "inv_call"
  /\ IF Len(coefficients) = Len(terms)
     THEN /\ pc' = "inv_loop"
          /\ r' = initial_guess
          /\ i' = 0
          /\ err' = err
     ELSE /\ pc' = "raised"
          /\ err' = "AssertionError"
          /\ UNCHANGED <<r, i>>
  /\ UNCHANGED <<entry, work, invArgs, f, df_dr, result, lutArgs, lutLocals, fitArgs, fitLocals>>

\* the mutated copy of NewtonPass used to test C11: the convergence test
\* comes before the update, and a pass that meets the tolerance leaves r as
\* it is
NewtonPassTestFirst ==
  /\ pc = "inv_loop"
  /\ i < max_iterations
  /\ IF Len(terms) = 0
     THEN /\ pc' = "raised"
          /\ err' = "ZeroDivisionError"
          /\ UNCHANGED <<r, i, f, df_dr>>
     ELSE \E fv \in {Residual(r, temperature, coefficients, terms, temp_in_celsius)},
             dv \in {steinhart_hart_derivative(r, coefficients, terms, temp_in_celsius)} :
            /\ f' = fv
            /\ df_dr' = dv
            /\ r' = IF Converged(fv, tolerance) THEN r
                    ELSE NewtonUpdate(r, fv, dv, min_resistance)
            /\ i' = i + 1
            /\ pc' = IF Converged(fv, tolerance) THEN "inv_break" ELSE "inv_loop"
            /\ err' = err
  /\ UNCHANGED <<entry, work, invArgs, result, lutArgs, lutLocals, fitArgs, fitLocals>>

\* lines 54-62: one pass of the loop.  With no term at all sh_p returns the
\* Python float 0.0 and 1.0 / 0.0 raises ZeroDivisionError; with at least
\* one term every value is a numpy.float64 and division never raises.
NewtonPass ==
  /\ pc = "inv_loop"
  /\ i < max_iterations
  /\ IF Len(terms) = 0
     THEN /\ pc' = "raised"
          /\ err' = "ZeroDivisionError"
          /\ UNCHANGED <<r, i, f, df_dr>>
     ELSE \E fv \in {Residual(r, temperature, coefficients, terms, temp_in_celsius)},
             dv \in {steinhart_hart_derivative(r, coefficients, terms, temp_in_celsius)} :
            /\ f' = fv
            /\ df_dr' = dv
            /\ r' = NewtonUpdate(r, fv, dv, min_resistance)
            /\ i' = i + 1
            /\ pc' = IF Converged(fv, tolerance) THEN "inv_break" ELSE "inv_loop"
            /\ err' = err
  /\ UNCHANGED <<entry, work, invArgs, result, lutArgs, lutLocals, fitArgs, fitLocals>>

\* the mutated copy of InvReturn used to test C2: a loop that used up its
\* passes without meeting the tolerance raises instead of returning
InvReturnOrRaise ==
  /\ pc \in {"inv_break", "inv_loop"}
  /\ pc = "inv_loop" => i >= max_iterations
  /\ IF pc = "inv_break"
     THEN result' = r /\ pc' = "inv_returned" /\ err' = err
     ELSE result' = result /\ pc' = "raised" /\ err' = "RuntimeError"
  /\ UNCHANGED <<entry, work, invArgs, r, i, f, df_dr, lutArgs, lutLocals, fitArgs, fitLocals>>

\* line 64: return r, after the break or when range(max_iterations) is used up
InvReturn ==
  /\ pc \in {"inv_break", "inv_loop"}
  /\ pc = "inv_loop" => i >= max_iterations
  /\ result' = r
  /\ pc' = "inv_returned"
  /\ UNCHANGED <<entry, err, work, invArgs, r, i, f, df_dr, lutArgs, lutLocals, fitArgs, fitLocals>>

NextInv == InvEnter \/ NewtonPass \/ InvReturn

SpecInv == InitInv /\ [][NextInv]_vars

InvDone == pc \in {"inv_returned", "raised"}

(***************************************************************************)
(* adc_to_resistance and resistance_to_adc called one after the other      *)
(***************************************************************************)

\* adc_to_resistance, lines 5-19, on the caller's code
ConvToResistance ==
  /\ pc = "conv_call"
  /\ resistances' = [k \in 1..Len(adc_values) |->
                       adc_to_resistance(adc_values[k], source_adc_resolution,
                                         reference_voltage, pull_up_resistance)]
  /\ work' = work \cup {"adc_to_resistance"}
  /\ pc' = "conv_resistance"
  /\ UNCHANGED <<entry, err, invArgs, invLocals, lutArgs, lutLocals, fitArgs, sh_coeffs>>

\* resistance_to_adc, lines 22-38, on the resistance just computed
ConvToAdc ==
  /\ pc = "conv_resistance"
  /\ sample_adc_values' = [k \in 1..Len(resistances) |->
                             resistance_to_adc(resistances[k], adc_resolution,
                                               reference_voltage, pull_up_resistance)]
  /\ work' = work \cup {"resistance_to_adc"}
  /\ pc' = "conv_done"
  /\ UNCHANGED <<entry, err, invArgs, invLocals, lutArgs, row, sample_resistances, lut,
                 fitArgs, fitLocals>>

NextConv == ConvToResistance \/ ConvToAdc

SpecConv == InitConv /\ [][NextConv]_vars

(***************************************************************************)
(* fit_steinhart_hart                                                      *)
(***************************************************************************)

\* lines 69-73: the three assertions
FitEnter ==
  /\ pc = "fit_call"
  /\ IF fit_preconditions(measured_temps, resistances, steinhart_hart_powers)
     THEN pc' = "fit_solve" /\ err' = err
     ELSE pc' = "raised" /\ err' = "AssertionError"
  /\ UNCHANGED <<entry, work, invArgs, invLocals, lutArgs, lutLocals, fitArgs, fitLocals>>

\* lines 83-97: the system is built and solved and x is returned, to the
\* caller of fit_steinhart_hart or into sh_coeffs of fit_adc_lut (line 120)
\* and fit_resistance_lut (line 164).  On an infinity or a NaN in the system
\* the LAPACK driver either fails to converge (FitSolveFails) or returns NaN.
FitSolve ==
  /\ pc = "fit_solve"
  /\ sh_coeffs' =
       IF FitDataFinite(measured_temps, resistances, steinhart_hart_powers, fit_temp_in_celsius)
       THEN fit_steinhart_hart(measured_temps, resistances, steinhart_hart_powers,
                               fit_temp_in_celsius)
       ELSE [j \in 1..Len(steinhart_hart_powers) |-> NaN]
  /\ work' = work \cup {"lstsq"}
  /\ pc' = IF entry = "fit_steinhart_hart" THEN "done" ELSE "fit_lut_build"
  /\ UNCHANGED <<entry, err, invArgs, invLocals, lutArgs, lutLocals, fitArgs, resistances>>

\* line 94 raising numpy.linalg.LinAlgError on a system that is not finite
FitSolveFails ==
  /\ pc = "fit_solve"
  /\ ~FitDataFinite(measured_temps, resistances, steinhart_hart_powers, fit_temp_in_celsius)
  /\ work' = work \cup {"lstsq"}
  /\ pc' = "raised"
  /\ err' = "LinAlgError"
  /\ UNCHANGED <<entry, invArgs, invLocals, lutArgs, lutLocals, fitArgs, fitLocals>>

(***************************************************************************)
(* fit_adc_lut and fit_resistance_lut                                      *)
(***************************************************************************)

\* fit_adc_lut lines 102-106, fit_resistance_lut lines 149-153: the
\* assertions on the lengths of the lists
FitLutEnter ==
  /\ pc = "fit_lut_call"
  /\ IF fit_lut_preconditions(measured_temps,
                              IF entry = "fit_adc_lut" THEN adc_values ELSE resistances,
                              steinhart_hart_powers)
     THEN /\ pc' = IF entry = "fit_adc_lut" THEN "fit_lut_convert" ELSE "fit_call"
          /\ err' = err
     ELSE pc' = "raised" /\ err' = "AssertionError"
  /\ UNCHANGED <<entry, work, invArgs, invLocals, lutArgs, lutLocals, fitArgs, fitLocals>>

\* fit_adc_lut line 117: the measured codes become resistances
FitLutConvert ==
  /\ pc = "fit_lut_convert"
  /\ resistances' = [k \in 1..Len(adc_values) |->
                       adc_to_resistance(adc_values[k], source_adc_resolution,
                                         reference_voltage, pull_up_resistance)]
  /\ work' = work \cup {"adc_to_resistance"}
  /\ pc' = "fit_call"
  /\ UNCHANGED <<entry, err, invArgs, invLocals, lutArgs, lutLocals, fitArgs, sh_coeffs>>

\* fit_adc_lut lines 123-133, fit_resistance_lut lines 167-174: the call of
\* the table builder with the fitted coefficients
FitLutBuild ==
  /\ pc = "fit_lut_build"
  /\ coefficients' = sh_coeffs
  /\ terms' = steinhart_hart_powers
  /\ lut_temp_in_celsius' = fit_temp_in_celsius
  /\ adc_resolution' = IF entry = "fit_adc_lut" THEN target_adc_resolution ELSE adc_resolution
  /\ pc' = "lut_call"
  /\ UNCHANGED <<entry, err, work, temperature, initial_guess, temp_in_celsius,
                 min_resistance, max_iterations, tolerance, invLocals,
                 sample_temps, reference_voltage, pull_up_resistance, lutLocals,
                 fitArgs, fitLocals>>

(***************************************************************************)
(* steinhart_hart_to_adc_lut and steinhart_hart_to_resistance_lut          *)
(***************************************************************************)

\* lines 53-61 and 79-81: the assertions
LutEnter ==
  /\ pc = "lut_call"
  /\ IF IF AdcMode
        THEN adc_lut_preconditions(sample_temps, adc_resolution, reference_voltage,
                                   pull_up_resistance, coefficients)
        ELSE resistance_lut_preconditions(sample_temps, coefficients)
     THEN pc' = "lut_rows" /\ err' = err
     ELSE pc' = "raised" /\ err' = "AssertionError"
  /\ row' = 0
  /\ sample_resistances' = <<>>
  /\ UNCHANGED <<entry, work, invArgs, invLocals, lutArgs, sample_adc_values, lut,
                 fitArgs, fitLocals>>

\* lines 63 and 83, element i of the comprehension: the call
\* sh.inverse_steinhart_hart(sample_temps[i], coefficients, terms, 1.0, True,
\*                           1e-6, max_iterations, tolerance)
RowStart ==
  /\ pc = "lut_rows"
  /\ row < Len(sample_temps)
  /\ temperature' = sample_temps[row + 1]
  /\ initial_guess' = One
  /\ temp_in_celsius' = TRUE
  /\ min_resistance' = Micro
  /\ work' = work \cup {"inverse_steinhart_hart"}
  /\ pc' = "inv_call"
  /\ UNCHANGED <<entry, err, coefficients, terms, max_iterations, tolerance, invLocals,
                 lutArgs, lutLocals, fitArgs, fitLocals>>

\* lines 63 and 83: the value returned for element i joins the list
RowEnd ==
  /\ pc = "inv_returned"
  /\ entry # "inverse_steinhart_hart"
  /\ sample_resistances' = Append(sample_resistances, result)
  /\ row' = row + 1
  /\ pc' = "lut_rows"
  /\ UNCHANGED <<entry, err, work, invArgs, invLocals, lutArgs, sample_adc_values, lut,
                 fitArgs, fitLocals>>

\* line 65: the resistances become ADC values
LutConvert ==
  /\ pc = "lut_rows"
  /\ row = Len(sample_temps)
  /\ AdcMode
  /\ sample_adc_values' = [k \in 1..Len(sample_resistances) |->
                             resistance_to_adc(sample_resistances[k], adc_resolution,
                                               reference_voltage, pull_up_resistance)]
  /\ work' = work \cup {"resistance_to_adc"}
  /\ pc' = "lut_return"
  /\ UNCHANGED <<entry, err, invArgs, invLocals, lutArgs, row, sample_resistances, lut,
                 fitArgs, fitLocals>>

\* lines 67 and 85: the table, returned to the caller as it is or with
\* sh_coeffs (fit_adc_lut line 136, fit_resistance_lut line 177)
LutReturn ==
  /\ IF AdcMode THEN pc = "lut_return"
     ELSE pc = "lut_rows" /\ row = Len(sample_temps)
  /\ lut' = Transposed(sample_temps,
                       IF AdcMode THEN sample_adc_values ELSE sample_resistances)
  /\ pc' = "done"
  /\ UNCHANGED <<entry, err, work, invArgs, invLocals, lutArgs, row, sample_resistances,
                 sample_adc_values, fitArgs, fitLocals>>

Init == InitLut \/ InitFit

Next ==
  \/ FitLutEnter \/ FitLutConvert \/ FitEnter \/ FitSolve \/ FitSolveFails \/ FitLutBuild
  \/ LutEnter \/ RowStart \/ InvEnter \/ NewtonPass \/ InvReturn \/ RowEnd
  \/ LutConvert \/ LutReturn

Spec == Init /\ [][Next]_vars

(***************************************************************************)
(* Properties of inverse_steinhart_hart (SpecInv)                          *)
(***************************************************************************)

\* the number of steps a call can still take: the passes left, and the
\* entry and the return around them
StepsLeft ==
  CASE pc = "inv_call" -> max_iterations + 2
    [] pc = "inv_loop" -> max_iterations - i + 1
    [] pc = "inv_break" -> 1
    [] OTHER -> 0

\* C2: inverse_steinhart_hart always ends, after at most max_iterations
\* updates: every step uses up one of the max_iterations + 2 steps a call
\* has, and a call that has neither returned nor raised has a step to take.
\* An error is raised only for a coefficient / exponent list that is empty or
\* of unequal lengths, never for a tolerance that was not met: the loop is
\* then left with i = max_iterations and the last iterate r is returned as it
\* is, and nothing runs again after the return.
C2_Terminates ==
  /\ [](i <= max_iterations /\ StepsLeft >= 0)
  /\ [][StepsLeft' < StepsLeft]_vars
  /\ [](~InvDone => \/ pc = "inv_call"
                    \/ pc = "inv_loop"
                    \/ pc = "inv_break")
  /\ [](pc = "raised" => (Len(coefficients) # Len(terms) \/ Len(terms) = 0))
  /\ [](pc = "inv_returned" =>
          /\ err = "" /\ result = r
          /\ (i = max_iterations \/ Converged(f, tolerance)))

\* a call whose tolerance was never met has returned its last iterate
C2_Witness ==
  /\ pc = "inv_returned" /\ i = max_iterations /\ i >= 2
  /\ ~Converged(f, tolerance) /\ result = r /\ IsFin(r)

\* C3 as claimed: the returned resistance is never below min_resistance,
\* whatever the initial guess and the iteration budget
C3_NeverBelowFloor ==
  pc = "inv_returned" => ~FLess(result, min_resistance)

\* C3 amended: once a pass of the loop has run (max_iterations >= 1), the
\* iterate, and with it the returned resistance, is never below
\* min_resistance; the initial guess itself is not floored
C3_FlooredAfterFirstPass ==
  (pc \in {"inv_loop", "inv_break", "inv_returned"} /\ i >= 1) =>
     /\ ~FLess(r, min_resistance)
     /\ (pc = "inv_returned" => ~FLess(result, min_resistance))

\* the floor has acted: the Newton step went below min_resistance and the
\* returned value is min_resistance
C3_Witness ==
  /\ pc = "inv_returned" /\ i >= 1 /\ result = min_resistance
  /\ IsFin(f) /\ IsFin(df_dr) /\ ~IsZero(df_dr)

\* C8: after a pass in which f'(r) was exactly zero the root-finder has either
\* raised an error or continues from a finite fallback iterate; the outcome
\* of f / 0 (an infinity or NaN) is not the next iterate or the result
C8_ZeroDerivativeHandled ==
  (pc \in {"inv_loop", "inv_break", "inv_returned"} /\ i >= 1 /\ IsZero(df_dr)) =>
     /\ IsFin(r)
     /\ (pc = "inv_returned" => IsFin(result))


\* C11 as claimed: the pass that finds the residual of the iterate r within
\* tolerance leaves r as it is, and that r is the value returned
C11_ReturnsTestedIterate ==
  [][/\ (pc = "inv_loop" /\ pc' = "inv_break") => r' = r
     /\ pc = "inv_break" => result' = r]_vars

\* C11 amended: the loop is left by the first pass whose residual f(r), taken
\* at the iterate r the pass started from, is within tolerance; that pass
\* has already replaced r by its Newton update max(r - f / df_dr,
\* min_resistance) when it tests f, and the value returned is the updated
\* iterate, whose own residual is never computed
C11_ReturnsUpdatedIterate ==
  [][/\ (pc = "inv_loop" /\ pc' = "inv_break") =>
          /\ Converged(f', tolerance)
          /\ r' = NewtonUpdate(r, f', df_dr', min_resistance)
     /\ (pc = "inv_loop" /\ pc' = "inv_loop") => ~Converged(f', tolerance)
     /\ pc = "inv_break" => (pc' = "inv_returned" /\ result' = r)]_vars

\* a call has left the loop by convergence after several passes and has
\* returned a finite value whose residual is not the residual that was tested
C11_Witness ==
  /\ pc = "inv_returned" /\ i >= 2 /\ i < max_iterations
  /\ Converged(f, tolerance) /\ ~IsZero(f)
  /\ IsFin(result) /\ result # min_resistance
  /\ Residual(result, temperature, coefficients, terms, temp_in_celsius) # f

(***************************************************************************)
(* Properties of the unit conversion (SpecConv)                            *)
(***************************************************************************)

\* the caller's code has been through adc_to_resistance and resistance_to_adc
\* and has come back as it was
RoundTripExact == sample_adc_values = adc_values

\* resolutions at least three bits short of the significand (binary64: 50)
SafeBits == MantBits - 3

\* a magnitude whose products with a code and a resistance stay far from
\* the ends of the exponent range
Moderate(x) == FLess(Norm(1, 1, -100), x) /\ FLess(x, Norm(1, 1, 100))

C1_RowsInCallerOrder ==
  pc = "done" /\ entry # "fit_steinhart_hart" =>
    /\ Len(sample_temps) > 0
    /\ Len(lut) = Len(sample_temps)
    /\ \A k \in 1..Len(lut) :
         /\ lut[k][1] = sample_temps[k]
         /\ lut[k][2] = IF AdcMode THEN sample_adc_values[k] ELSE sample_resistances[k]

\* the unordered list 50, 10, 30 has given a table of three rows in that order
C1_Witness ==
  /\ pc = "done" /\ entry = "steinhart_hart_to_resistance_lut"
  /\ sample_temps = <<FromInt(50), FromInt(10), FromInt(30)>>
  /\ Len(lut) = 3
  /\ lut[1][1] = FromInt(50) /\ lut[2][1] = FromInt(10) /\ lut[3][1] = FromInt(30)
  /\ IsFin(lut[1][2]) /\ lut[1][2] # lut[2][2] /\ lut[2][2] # lut[3][2]

\* an integer value of the format
IsInteger(x) == IsFin(x) /\ (x.e >= 0 \/ x.m % Pow2(-x.e) = 0)

\* an ADC code of the given resolution
IsCode(x, bits) ==
  /\ IsInteger(x)
  /\ IsZero(x) \/ x.s = 1
  /\ ~FLess(FullScale(bits), x)

\* C5: every value in the second column of a table of ADC values is an
\* integer code in [0, 2^adc_resolution - 1]
C5_CodesInRange ==
  pc = "done" /\ AdcMode => \A k \in 1..Len(lut) : IsCode(lut[k][2], adc_resolution)

\* the device parameters of fit_adc_lut are all in their domain
DeviceValid ==
  /\ source_adc_resolution >= 1
  /\ target_adc_resolution >= 1
  /\ IsPositive(reference_voltage)
  /\ IsPositive(pull_up_resistance)

\* C6: in fit_adc_lut no numeric stage (conversion of the measurements,
\* least-squares fit, root-finding) has run unless every device parameter
\* is in its domain
C6_DeviceCheckedFirst ==
  entry = "fit_adc_lut" /\ work # {} => DeviceValid

\* C7: fit_steinhart_hart reaches the least-squares solver only with equally
\* many temperatures and resistances, at least as many of them as exponents
\* and at least one exponent; a call that breaks one of the three has raised
\* AssertionError without the solver having run
C7_SolverPreconditions ==
  /\ (pc = "fit_solve" \/ "lstsq" \in work) =>
        /\ Len(measured_temps) = Len(resistances)
        /\ Len(measured_temps) >= Len(steinhart_hart_powers)
        /\ Len(steinhart_hart_powers) >= 1
  /\ (/\ entry = "fit_steinhart_hart"
      /\ pc # "fit_call"
      /\ \/ Len(measured_temps) # Len(resistances)
         \/ Len(measured_temps) < Len(steinhart_hart_powers)
         \/ Len(steinhart_hart_powers) < 1) =>
        pc = "raised" /\ err = "AssertionError" /\ "lstsq" \notin work

\* one measurement against two exponents has been rejected before the solver
C7_Witness ==
  /\ entry = "fit_steinhart_hart" /\ pc = "raised" /\ err = "AssertionError"
  /\ Len(measured_temps) = 1 /\ Len(resistances) = 1
  /\ Len(steinhart_hart_powers) = 2
  /\ "lstsq" \notin work

\* C9: the resistance of every row is the value inverse_steinhart_hart
\* computes from the initial guess 1.0 for that row's sample temperature and
\* the shared coefficients, exponents, iteration budget and tolerance alone;
\* each call enters its loop at r = 1.0 with i = 0, whatever the rows before
\* it left behind, and the rows already computed stay as they are
C9_RowsIndependent ==
  /\ (pc = "lut_rows" /\ row >= 1) =>
        sample_resistances[row] =
          InverseFrom(One, max_iterations, sample_temps[row], coefficients, terms,
                      TRUE, Micro, tolerance)
  /\ (entry # "inverse_steinhart_hart" /\ pc = "inv_loop" /\ i = 0) => r = One
  /\ Len(sample_resistances) = row

\* two rows of different temperatures have been computed after an earlier
\* row left its iterate behind
C9_Witness ==
  /\ pc = "lut_rows" /\ row = 3
  /\ sample_temps[1] # sample_temps[3] /\ sample_temps[1] = sample_temps[2]
  /\ IsFin(sample_resistances[1]) /\ IsFin(sample_resistances[3])
  /\ sample_resistances[1] # sample_resistances[3]
  /\ sample_resistances[1] = sample_resistances[2]
  /\ sample_resistances[3] # One

\* C10: in fit_adc_lut and fit_resistance_lut the unit in which
\* inverse_steinhart_hart reads the sample temperatures is the unit in which
\* fit_steinhart_hart read the measured temperatures
C10_SameUnit ==
  (FitLutEntry /\ pc \in {"inv_call", "inv_loop", "inv_break", "inv_returned"}) =>
     temp_in_celsius = fit_temp_in_celsius

====
